---- MODULE Spec2Model ----
(***************************************************************************)
(* Model of the submission-intake edge function                            *)
(* (supabase/functions/submit-form/index.ts): the spam evaluator           *)
(* detectSpam with its process-wide submissionCache, the serve handler     *)
(* with its await points, and the detached sendNotificationEmail task.     *)
(*                                                                         *)
(* Strings are sequences of lexical tokens: a decimal digit, a sign, a     *)
(* letter, or one whole URL scheme prefix ("http://", "https://").         *)
(* A JSON value is a record [typ, val] whose val is the token sequence of  *)
(* the string (typ = "string") or of the number's decimal rendering        *)
(* (typ = "number").  A payload is a function from its keys to values.     *)
(***************************************************************************)
EXTENDS Integers, Sequences, FiniteSets, TLC

\* ------------------------------------------------------------------ bounds
\* Date.now() when the process starts (milliseconds).
T0 == 1000000
\* The clock is advanced at most this many times, half a rate window at a
\* time: in SpecDetect and SpecRate, and in Spec.
Horizon == 2
IntakeHorizon == 1
\* Intake calls received in Spec.
MaxCalls == 1
\* Intake calls received in SpecRate, and how many of them may be in flight.
MaxRateCalls == 4
MaxInFlight == 2
\* SpecLimit: the clock is advanced at most this many times, half a
\* middleware window at a time, and an entry is counted up to MaxCount.
LimitHorizon == 3
MaxCount == 102
\* SpecEmbed: the clock is advanced at most this many times, one second at a
\* time.
EmbedHorizon == 4

\* --------------------------------------------------------------- constants
\* `timestamps.length >= 3`
MaxPerWindow == 3
\* `totalScore >= 70`
SpamThreshold == 70
\* `timeDiff < 2` (seconds)
MinSeconds == 2
\* `now - (5 * 60 * 1000)`
WindowMs == 5 * 60 * 1000

\* `RATE_LIMIT = { windowMs: 15 * 60 * 1000, max: 100 }`
RateLimitWindowMs == 15 * 60 * 1000
RateLimitMax == 100

HONEYPOT == "__honeypot"
TIMESTAMP == "__timestamp"

VARIABLES
  now,              \* Date.now()
  submissionCache,  \* Map<string, number[]>: origin -> recorded timestamps
  last,             \* SpecDetect: the direct detectSpam call not yet returned
  handler,          \* per invocation of the serve callback, in order of
                    \* arrival: its position and locals
  submissions,      \* table submissions, in insertion order
  spam_signals,     \* table spam_signals
  email_logs,       \* table email_logs
  mail,             \* the sendNotificationEmail tasks started so far
  rateLimits,       \* middleware: Map<string, { count, resetTime }>
  limited,          \* SpecLimit: the rateLimit call not yet returned
  page              \* SpecEmbed: the page that runs the generated embed script

\* ------------------------------------------------------------- JS helpers
DigitChars == <<"0", "1", "2", "3", "4", "5", "6", "7", "8", "9">>
Digits == {DigitChars[i] : i \in 1..10}
DigitVal(c) == (CHOOSE i \in 1..10 : DigitChars[i] = c) - 1

\* Number.prototype.toString for an integer.
RECURSIVE NatToStr(_)
NatToStr(n) == IF n < 10 THEN <<DigitChars[n + 1]>>
               ELSE NatToStr(n \div 10) \o <<DigitChars[(n % 10) + 1]>>
IntToStr(n) == IF n < 0 THEN <<"-">> \o NatToStr(0 - n) ELSE NatToStr(n)

Str(s) == [typ |-> "string", val |-> s]
Num(n) == [typ |-> "number", val |-> IntToStr(n)]

\* The longest prefix of s made of digits.
RECURSIVE DigitPrefix(_)
DigitPrefix(s) == IF s = <<>> \/ Head(s) \notin Digits THEN <<>>
                  ELSE <<Head(s)>> \o DigitPrefix(Tail(s))

RECURSIVE DigitsToNat(_, _)
DigitsToNat(s, acc) == IF s = <<>> THEN acc
                       ELSE DigitsToNat(Tail(s), acc * 10 + DigitVal(Head(s)))

\* parseInt(v): optional sign, then the leading digits; NaN when there is none.
parseInt(v) ==
  LET s    == v.val
      neg  == s # <<>> /\ Head(s) = "-"
      body == IF s # <<>> /\ Head(s) \in {"-", "+"} THEN Tail(s) ELSE s
      ds   == DigitPrefix(body)
  IN IF ds = <<>> THEN [nan |-> TRUE, n |-> 0]
     ELSE [nan |-> FALSE,
           n |-> IF neg THEN 0 - DigitsToNat(ds, 0) ELSE DigitsToNat(ds, 0)]

\* JS truthiness of a present value: '' and 0 are falsy.
Truthy(v) == IF v.typ = "string" THEN v.val # <<>> ELSE v.val # <<"0">>

\* (v.match(/https?:\/\//g) || []).length
RECURSIVE UrlCount(_)
UrlCount(s) == IF s = <<>> THEN 0
               ELSE (IF Head(s) \in {"http://", "https://"} THEN 1 ELSE 0)
                    + UrlCount(Tail(s))

\* ------------------------------------------------------------- detectSpam
Signal(name, score) == [signal |-> name, score |-> score]

\* (the evaluator without its honeypot check)
HoneypotFilledSkipped(data) == FALSE
\* `data.__honeypot && data.__honeypot !== ''`
HoneypotFilled(data) ==
  /\ HONEYPOT \in DOMAIN data
  /\ Truthy(data[HONEYPOT])
  /\ data[HONEYPOT] # Str(<<>>)

\* (a timing check that ignores negative elapsed times)
TooFastNonNegative(data, t) ==
  /\ TIMESTAMP \in DOMAIN data
  /\ Truthy(data[TIMESTAMP])
  /\ LET p == parseInt(data[TIMESTAMP])
     IN ~p.nan /\ 0 <= t - p.n /\ (t - p.n) < MinSeconds * 1000
\* (the timing check without `/ 1000`)
TooFastMillis(data, t) ==
  /\ TIMESTAMP \in DOMAIN data
  /\ Truthy(data[TIMESTAMP])
  /\ LET p == parseInt(data[TIMESTAMP])
     IN ~p.nan /\ (t - p.n) < MinSeconds
\* `if (data.__timestamp) { ... if (timeDiff < 2)`, timeDiff = (t - parsed) / 1000
TooFast(data, t) ==
  /\ TIMESTAMP \in DOMAIN data
  /\ Truthy(data[TIMESTAMP])
  /\ LET p == parseInt(data[TIMESTAMP])
     IN ~p.nan /\ (t - p.n) < MinSeconds * 1000

\* (a lookup that does not drop old timestamps)
RecentTimestampsUnfiltered(cache, ip, t) == cache[ip]
\* (a lookup that reads the list of whichever origin comes first)
RecentTimestampsAnyOrigin(cache, ip, t) ==
  SelectSeq(cache[CHOOSE k \in DOMAIN cache : TRUE], LAMBDA ts : ts > t - WindowMs)
\* `submissionCache.get(ip)!.filter(ts => ts > fiveMinutesAgo)`
RecentTimestamps(cache, ip, t) ==
  SelectSeq(cache[ip], LAMBDA ts : ts > t - WindowMs)

\* (`timestamps.length > 3`)
RateExceededOffByOne(timestamps) == Len(timestamps) > MaxPerWindow
\* `timestamps.length >= 3`
RateExceeded(timestamps) == Len(timestamps) >= MaxPerWindow

\* (`.length > 1`)
hasTwoUrls(data) ==
  \E k \in DOMAIN data : data[k].typ = "string" /\ UrlCount(data[k].val) > 1
\* `values.some(v => (v.match(...) || []).length > 2)` over the string values
hasMultipleUrls(data) ==
  \E k \in DOMAIN data : data[k].typ = "string" /\ UrlCount(data[k].val) > 2

\* (a sum that counts every signal as 100)
SumScoresFlat(sigs) == 100 * Len(sigs)
RECURSIVE SumScores(_)
SumScores(sigs) == IF sigs = <<>> THEN 0
                   ELSE Head(sigs).score + SumScores(Tail(sigs))

Verdict(isSpam, reason, signals) ==
  [isSpam |-> isSpam, reason |-> reason, signals |-> signals]

\* (a write that keeps only the new timestamp)
pushAlone(timestamps, t) == <<t>>
\* (a write that records the call twice)
pushTwice(timestamps, t) == Append(Append(timestamps, t), t)
\* `timestamps.push(now)`
push(timestamps, t) == Append(timestamps, t)

\* (a blocked call that is counted all the same)
RateBlockedButCounted(cache, ip, t) ==
  [cache EXCEPT ![ip] = push(RecentTimestamps(cache, ip, t), t)]
\* The cache after the return inside `if (timestamps.length >= 3)`: neither
\* push nor set has run.
RateBlocked(cache, ip, t) == cache

\* detectSpam(data, ip) evaluated at Date.now() = t against the cache:
\* the returned object and the cache it leaves behind.
detectSpam(data, ip, cache, t) ==
  IF HoneypotFilled(data)
  THEN [result |-> Verdict(TRUE, "Honeypot field was filled",
                           <<Signal("honeypot_filled", 100)>>),
        cache |-> cache]
  ELSE IF TooFast(data, t)
  THEN [result |-> Verdict(TRUE, "Form submitted too quickly",
                           <<Signal("too_fast", 80)>>),
        cache |-> cache]
  ELSE IF ip \in DOMAIN cache /\ RateExceeded(RecentTimestamps(cache, ip, t))
  THEN [result |-> Verdict(TRUE, "Too many submissions from this IP",
                           <<Signal("rate_limit_exceeded", 90)>>),
        cache |-> RateBlocked(cache, ip, t)]
  ELSE LET cache2 == IF ip \in DOMAIN cache
                     THEN [cache EXCEPT
                             ![ip] = push(RecentTimestamps(cache, ip, t), t)]
                     ELSE cache @@ (ip :> <<t>>)
           signals == IF hasMultipleUrls(data)
                      THEN <<Signal("multiple_urls", 60)>> ELSE <<>>
           isSpam  == SumScores(signals) >= SpamThreshold
       IN [result |-> Verdict(isSpam,
                              IF isSpam THEN "Spam score threshold exceeded"
                              ELSE "",
                              signals),
           cache |-> cache2]

\* ------------------------------------------------------------ input sets
EmptyPayload == [k \in {} |-> Str(<<>>)]
IPs == {"1.2.3.4", "5.6.7.8"}

Text == <<"h", "i">>
TwoUrls == <<"http://", "a", "https://", "b">>
ThreeUrls == <<"http://", "a", "https://", "b", "http://", "c">>

HoneypotParts ==
  {EmptyPayload} \cup
  {(HONEYPOT :> v) : v \in {Str(<<>>), Str(<<"b", "o", "t">>)}}

\* How long before the server's clock reading t the client's reading was taken
\* (negative: the client's clock is ahead).
ClockOffsets == {0, 1999, 2000, 0 - 1, 0 - 86400000}

\* The embed script sends Date.now().toString(); other callers send anything.
TimestampParts(t) ==
  {EmptyPayload} \cup
  {(TIMESTAMP :> v) :
     v \in {Str(<<>>), Str(<<"a", "b", "c">>), Num(t - 1999)}
           \cup {Str(IntToStr(t - d)) : d \in ClockOffsets}}

FieldParts ==
  {EmptyPayload} \cup
  {("message" :> v) : v \in {Str(TwoUrls), Str(ThreeUrls), Num(3)}}

\* Payloads a caller may send when the server clock reads t.
Payloads(t) ==
  {h @@ c @@ f : h \in HoneypotParts, c \in TimestampParts(t), f \in FieldParts}

NoVerdict == Verdict(FALSE, "", <<>>)
NoCall == [called |-> FALSE, data |-> EmptyPayload, ip |-> "", at |-> 0,
           before |-> <<>>, result |-> NoVerdict, blocked |-> {},
           wasBlocked |-> FALSE]

vars == <<now, submissionCache, last, handler, submissions, spam_signals,
          email_logs, mail, rateLimits, limited, page>>
pipeVars == <<handler, submissions, spam_signals, email_logs, mail>>
\* State outside the edge function: the API middleware and a browser page.
sideVars == <<rateLimits, limited, page>>

\* ------------------------------------------------------ the serve handler
\* Table forms (read only by this function).
FormsTable ==
  { [id |-> "F1", name |-> "Contact", is_active |-> TRUE,
     notification_email |-> "owner@example.com"],
    [id |-> "F2", name |-> "Survey", is_active |-> TRUE,
     notification_email |-> ""],
    [id |-> "F3", name |-> "Closed", is_active |-> FALSE,
     notification_email |-> "owner@example.com"] }
NoForm == [id |-> "", name |-> "", is_active |-> FALSE, notification_email |-> ""]

\* A request: method, path segments, the two address headers ("" = not sent),
\* and the body (malformed = req.json() rejects).
Request(method, path, xff, xri, malformed, body) ==
  [method |-> method, path |-> path, xff |-> xff, xri |-> xri,
   userAgent |-> "agent", malformed |-> malformed, body |-> body]
NoRequest == Request("", <<>>, "", "", FALSE, EmptyPayload)

Response(status, body) == [status |-> status, body |-> body]
NullBody == [k \in {} |-> ""]
ErrorBody(msg) == [error |-> msg]
SuccessBody(id) ==
  [success |-> TRUE, message |-> "Submission received", submission_id |-> id]
NoResponse == Response(0, NullBody)

\* Position and locals of one invocation.  History variables: `evalAt` (the
\* Date.now() detectSpam read), `trace` (the steps attempted, in order) and
\* `faults` (the awaited calls that did not resolve cleanly, with how).
IdleHandler ==
  [pc |-> "idle", req |-> NoRequest, formId |-> "", form |-> NoForm,
   submissionData |-> EmptyPayload, ip |-> "", cleanPayload |-> EmptyPayload,
   spamCheck |-> NoVerdict, evalAt |-> 0, submissionId |-> 0,
   response |-> NoResponse, trace |-> <<>>, faults |-> {}]

\* ---------------------------------------------------- the API middleware
\* What rateLimit(ip) returns: null, or { error, status: 429, retryAfter }.
Allowed == [status |-> 0, error |-> "", retryAfter |-> 0]
TooManyRequests(retryAfter) ==
  [status |-> 429, error |-> "Too many requests", retryAfter |-> retryAfter]
\* `Math.ceil(ms / 1000)` for ms >= 0
CeilSeconds(ms) == (ms + 999) \div 1000
\* (`rateLimit.count >= RATE_LIMIT.max`)
OverLimitAtMax(count) == count >= RateLimitMax
\* `rateLimit.count > RATE_LIMIT.max`
OverLimit(count) == count > RateLimitMax

\* rateLimit(ip) evaluated at Date.now() = t against the map: the returned
\* value and the map it leaves behind.
rateLimit(ip, limits, t) ==
  IF ip \notin DOMAIN limits
  THEN [result |-> Allowed,
        limits |-> limits @@ (ip :> [count |-> 1, resetTime |-> t + RateLimitWindowMs])]
  ELSE IF t > limits[ip].resetTime
  THEN [result |-> Allowed,
        limits |-> [limits EXCEPT ![ip] =
                      [count |-> 1, resetTime |-> t + RateLimitWindowMs]]]
  ELSE LET count == limits[ip].count + 1
       IN [result |-> IF OverLimit(count)
                      THEN TooManyRequests(CeilSeconds(limits[ip].resetTime - t))
                      ELSE Allowed,
           limits |-> [limits EXCEPT ![ip].count = count]]

NoLimitCall == [called |-> FALSE, ip |-> "", at |-> 0, before |-> <<>>,
                result |-> Allowed]

\* ------------------------------------------------- the embed script's page
\* The page has not run the script yet.  `data` is the body of the request
\* and `result` what detectSpam made of it; history fields: when the form was
\* put on the page, when it was submitted and when the request arrived.
NoPage == [pc |-> "none", loadedAt |-> 0, sentAt |-> 0, arrivedAt |-> 0,
           data |-> EmptyPayload, result |-> NoVerdict]

\* The state when the module has been loaded and n requests are to come.
InitWith(n) ==
  /\ now = T0
  /\ submissionCache = <<>>
  /\ last = NoCall
  /\ handler = [s \in 1..n |-> IdleHandler]
  /\ submissions = <<>>
  /\ spam_signals = <<>>
  /\ email_logs = <<>>
  /\ mail = <<>>
  /\ rateLimits = <<>>
  /\ limited = NoLimitCall
  /\ page = NoPage
Init == InitWith(MaxCalls)

\* ------------------------------------------------------------------ clock
\* Date.now() moves on by half a rate window.
Tick(limit) ==
  /\ now + WindowMs \div 2 <= T0 + limit * (WindowMs \div 2)
  /\ now' = now + WindowMs \div 2
  /\ UNCHANGED <<submissionCache, last, pipeVars, sideVars>>

\* ------------------------------------------- detectSpam called on its own
\* One synchronous call detectSpam(data, ip); `last` holds the call and the
\* object it returned until the caller has taken it.  History fields:
\* `blocked`, the origins that have had a call answered rate_limit_exceeded
\* since their last recorded call, and `wasBlocked`, whether the caller was
\* one of them when it called.
DetectCall(data, ip) ==
  LET r == detectSpam(data, ip, submissionCache, now)
  IN /\ ~last.called
     /\ submissionCache' = r.cache
     /\ last' = [called |-> TRUE, data |-> data, ip |-> ip, at |-> now,
                 before |-> submissionCache, result |-> r.result,
                 blocked |-> IF "rate_limit_exceeded"
                                  \in {r.result.signals[i].signal :
                                         i \in 1..Len(r.result.signals)}
                             THEN last.blocked \cup {ip}
                             ELSE IF r.cache # submissionCache
                             THEN last.blocked \ {ip} ELSE last.blocked,
                 wasBlocked |-> ip \in last.blocked]
     /\ UNCHANGED <<now, pipeVars, sideVars>>

DetectReturn ==
  /\ last.called
  /\ last' = [NoCall EXCEPT !.blocked = last.blocked]
  /\ UNCHANGED <<now, submissionCache, pipeVars, sideVars>>

NextDetect ==
  \/ (~last.called /\ Tick(Horizon))
  \/ \E ip \in IPs : \E data \in Payloads(now) : DetectCall(data, ip)
  \/ DetectReturn

SpecDetect == Init /\ [][NextDetect]_vars

\* ---------------------------------------------------- requests sent to it
BasePath == <<"functions", "v1", "submit-form">>
AddressHeaders == {<<"1.2.3.4", "">>, <<"", "5.6.7.8">>, <<"", "">>}

\* What the embed script posts for a patient user, a bot that fills every
\* field, a script that posts at once, and a caller without control fields.
PatientPayload(t) ==
  ("name" :> Str(Text)) @@ (HONEYPOT :> Str(<<>>))
    @@ (TIMESTAMP :> Str(IntToStr(t - 2000)))
BotPayload(t) ==
  ("name" :> Str(Text)) @@ (HONEYPOT :> Str(<<"b", "o", "t">>))
    @@ (TIMESTAMP :> Str(IntToStr(t - 2000)))
HastyPayload(t) ==
  ("name" :> Str(Text)) @@ (HONEYPOT :> Str(<<>>))
    @@ (TIMESTAMP :> Str(IntToStr(t)))
LinkPayload == ("message" :> Str(ThreeUrls))
IntakePayloads(t) ==
  {PatientPayload(t), BotPayload(t), HastyPayload(t), LinkPayload}

\* Requests that can arrive when the clock reads t.  A request that is
\* answered before its headers or body are read comes in one variant.
Rejected ==
  {Request("OPTIONS", BasePath \o <<"F1">>, "", "", FALSE, EmptyPayload)}
  \cup {Request("POST", BasePath \o <<id>>, "", "", FALSE, EmptyPayload) :
          id \in {"", "F3", "F9"}}
  \cup {Request("POST", BasePath \o <<"F1">>, "", "", TRUE, EmptyPayload)}
  \cup {Request("POST", BasePath, "", "", FALSE, EmptyPayload)}
Post(id, a, b) == Request("POST", BasePath \o <<id>>, a[1], a[2], FALSE, b)
Requests(t) ==
  Rejected
  \cup {Post("F1", <<"1.2.3.4", "">>, b) : b \in IntakePayloads(t)}
  \cup {Post("F2", a, PatientPayload(t)) : a \in AddressHeaders}
  \cup {Post("F2", <<"1.2.3.4", "">>, BotPayload(t))}

\* Outcomes of an awaited call to the database or mail client: it resolves
\* without error, resolves with an error object, or rejects.
Outcomes == {"ok", "error", "throw"}

\* --------------------------------------------------- steps of the handler
\* `req.headers.get('x-forwarded-for') || req.headers.get('x-real-ip') || 'unknown'`
ClientIp(r) == IF r.xff # "" THEN r.xff ELSE IF r.xri # "" THEN r.xri ELSE "unknown"

\* (the copy with only `delete cleanPayload.__honeypot`)
CleanKeepsTimestamp(data) == [k \in DOMAIN data \ {HONEYPOT} |-> data[k]]
\* `const cleanPayload = { ...submissionData }; delete ...; delete ...`
Clean(data) == [k \in DOMAIN data \ {HONEYPOT, TIMESTAMP} |-> data[k]]

Fault(h, step, outcome) ==
  IF outcome = "ok" THEN h.faults ELSE h.faults \cup {<<step, outcome>>}

\* (a catch that answers 400)
CaughtAsBadRequest(h) ==
  [h EXCEPT !.pc = "done",
            !.response = Response(400, ErrorBody("Bad request"))]
\* The outer `catch (error)` of the handler.
Caught(h) ==
  [h EXCEPT !.pc = "done",
            !.response = Response(500, ErrorBody("Internal server error"))]

\* A new invocation: the OPTIONS branch, the formId check, and the start of
\* the forms query.
Receive(s, r) ==
  LET h0 == [IdleHandler EXCEPT !.req = r]
      formId == r.path[Len(r.path)]
  IN /\ handler[s].pc = "idle"
     /\ \A j \in 1..(s - 1) : handler[j].pc # "idle"
     /\ handler' = [handler EXCEPT ![s] =
          IF r.method = "OPTIONS"
          THEN [h0 EXCEPT !.pc = "done", !.response = Response(200, NullBody)]
          ELSE IF formId = ""
          THEN [h0 EXCEPT !.pc = "done",
                          !.response = Response(400, ErrorBody("Form ID is required"))]
          ELSE [h0 EXCEPT !.pc = "lookup", !.formId = formId,
                          !.trace = <<"lookup">>]]
     /\ UNCHANGED <<now, submissionCache, last, sideVars, submissions, spam_signals,
                    email_logs, mail>>

\* (the query without `.eq('is_active', true)`)
FormsById(formId) == {f \in FormsTable : f.id = formId}
\* `.from('forms').select('*').eq('id', formId).eq('is_active', true)`
ActiveForms(formId) == {f \in FormsTable : f.id = formId /\ f.is_active = TRUE}

\* The forms query resolves or rejects; `.single()` reports an error unless
\* exactly one row matches.
LookupForm(s, outcome) ==
  LET h == handler[s]
      rows == ActiveForms(h.formId)
      h1 == [h EXCEPT !.faults = Fault(h, "lookup", outcome)]
  IN /\ h.pc = "lookup"
     /\ handler' = [handler EXCEPT ![s] =
          IF outcome = "throw" THEN Caught(h1)
          ELSE IF outcome = "error" \/ Cardinality(rows) # 1
          THEN [h1 EXCEPT !.pc = "done",
                          !.response = Response(404, ErrorBody("Form not found or inactive"))]
          ELSE [h EXCEPT !.pc = "json", !.form = CHOOSE f \in rows : TRUE]]
     /\ UNCHANGED <<now, submissionCache, last, sideVars, submissions, spam_signals,
                    email_logs, mail>>

\* `await req.json()` resolves or rejects; then, without another await, the
\* payload is cleaned, detectSpam runs and the submissions insert is issued.
Evaluate(s) ==
  LET h == handler[s]
      data == h.req.body
      ip == ClientIp(h.req)
      r == detectSpam(data, ip, submissionCache, now)
  IN /\ h.pc = "json"
     /\ IF h.req.malformed
        THEN /\ handler' = [handler EXCEPT ![s] =
                  Caught([h EXCEPT !.faults = Fault(h, "json", "throw")])]
             /\ UNCHANGED submissionCache
        ELSE /\ handler' = [handler EXCEPT ![s] =
                  [h EXCEPT !.pc = "insert", !.submissionData = data, !.ip = ip,
                            !.cleanPayload = Clean(data), !.spamCheck = r.result,
                            !.evalAt = now,
                            !.trace = h.trace \o <<"evaluate", "insert_submission">>]]
             /\ submissionCache' = r.cache
     /\ UNCHANGED <<now, last, sideVars, submissions, spam_signals, email_logs, mail>>

\* The rest of the handler after the spam_signals step: start the detached
\* sendNotificationEmail (it runs up to its first await, the mail send) and
\* return the success response.
Notifies(h) == ~h.spamCheck.isSpam /\ h.form.notification_email # ""
\* (a task started before the submission id is known)
NewMailWithoutId(h) ==
  [submission_id |-> 0, formName |-> h.form.name,
   to |-> h.form.notification_email, pc |-> "send", status |-> "",
   provider_response |-> "", rejected |-> FALSE, unhandled |-> FALSE,
   trace |-> <<>>]
NewMail(h) ==
  [submission_id |-> h.submissionId, formName |-> h.form.name,
   to |-> h.form.notification_email, pc |-> "send", status |-> "",
   provider_response |-> "", rejected |-> FALSE, unhandled |-> FALSE,
   trace |-> <<>>]
Succeed(s, h) ==
  /\ handler' = [handler EXCEPT ![s] =
       [h EXCEPT !.pc = "done",
                 !.response = Response(200, SuccessBody(h.submissionId)),
                 !.trace = h.trace \o (IF Notifies(h) THEN <<"dispatch">> ELSE <<>>)]]
  /\ mail' = IF Notifies(h) THEN Append(mail, NewMail(h)) ELSE mail

\* The submissions insert resolves or rejects.  The row's id is its position
\* in the table; `at` is a history field: the evaluation time of the call.
\* The spam_signals insert that follows resolves (its result is not looked
\* at) or rejects.
\* (a handler that does not look at submissionError)
SubmissionErrorIgnored(outcome) == FALSE
\* `if (submissionError)`
SubmissionFailed(outcome) == outcome = "error"
SubmissionRow(h, id) ==
  [id |-> id, form_id |-> h.formId, payload |-> h.cleanPayload, ip |-> h.ip,
   user_agent |-> h.req.userAgent, is_spam |-> h.spamCheck.isSpam,
   spam_reason |-> h.spamCheck.reason, at |-> h.evalAt]
InsertSubmission(s, outcome) ==
  LET h == handler[s]
      id == Len(submissions) + 1
      h2 == [h EXCEPT !.faults = Fault(h, "insert_submission", outcome)]
      h1 == [h2 EXCEPT !.submissionId = IF outcome = "ok" THEN id ELSE 0]
  IN /\ h.pc = "insert"
     /\ IF outcome # "throw" /\ ~SubmissionFailed(outcome)
        THEN /\ submissions' = IF outcome = "ok"
                               THEN Append(submissions, SubmissionRow(h, id))
                               ELSE submissions
             /\ IF Len(h.spamCheck.signals) > 0
                THEN /\ handler' = [handler EXCEPT ![s] =
                          [h1 EXCEPT !.pc = "signals",
                                     !.trace = h.trace \o <<"insert_signals">>]]
                     /\ UNCHANGED mail
                ELSE Succeed(s, h1)
        ELSE /\ handler' = [handler EXCEPT ![s] =
                  IF outcome = "throw" THEN Caught(h2)
                  ELSE [h2 EXCEPT !.pc = "done",
                                  !.response = Response(500, ErrorBody("Failed to save submission"))]]
             /\ UNCHANGED <<submissions, mail>>
     /\ UNCHANGED <<now, submissionCache, last, sideVars, spam_signals, email_logs>>

\* (rows written without their score)
SignalRowsNoScore(h) ==
  [i \in 1..Len(h.spamCheck.signals) |->
     [submission_id |-> h.submissionId,
      signal |-> h.spamCheck.signals[i].signal, score |-> 0]]
\* `spamCheck.signals.map(signal => ({ submission_id, signal, score }))`
SignalRows(h) ==
  [i \in 1..Len(h.spamCheck.signals) |->
     [submission_id |-> h.submissionId,
      signal |-> h.spamCheck.signals[i].signal,
      score |-> h.spamCheck.signals[i].score]]
InsertSignals(s, outcome) ==
  LET h0 == handler[s]
      h == [h0 EXCEPT !.faults = Fault(h0, "insert_signals", outcome)]
  IN /\ h0.pc = "signals"
     /\ IF outcome = "throw"
        THEN /\ handler' = [handler EXCEPT ![s] = Caught(h)]
             /\ UNCHANGED <<spam_signals, mail>>
        ELSE /\ spam_signals' = IF outcome = "ok"
                                THEN spam_signals \o SignalRows(h)
                                ELSE spam_signals
             /\ Succeed(s, h)
     /\ UNCHANGED <<now, submissionCache, last, sideVars, submissions, email_logs>>

\* ------------------------------------------------- sendNotificationEmail
\* `await resend.emails.send(...)` resolves with data, resolves with an
\* error, or rejects (the catch block then issues its own email_logs insert).
\* History field `trace` of the task: its awaited calls with how they ended.
\* (a log row that always says 'sent')
LogStatusAlwaysSent(outcome) == "sent"
\* `status: error ? 'failed' : 'sent'`
LogStatus(outcome) == IF outcome = "error" THEN "failed" ELSE "sent"
\* `provider_response: error ? { error: error.message } : data`
ProviderResponse(outcome) == IF outcome = "error" THEN "error.message" ELSE "data"
SendEmail(i, outcome) ==
  LET m0 == mail[i]
      m == [m0 EXCEPT !.trace = Append(m0.trace, <<"send", outcome>>)]
  IN /\ m0.pc = "send"
     /\ mail' = [mail EXCEPT ![i] =
          IF outcome = "throw"
          THEN [m EXCEPT !.pc = "catch_log", !.status = "failed",
                         !.provider_response = "String(error)"]
          ELSE [m EXCEPT !.pc = "log", !.status = LogStatus(outcome),
                         !.provider_response = ProviderResponse(outcome)]]
     /\ UNCHANGED <<now, submissionCache, last, sideVars, handler, submissions,
                    spam_signals, email_logs>>

\* An email_logs insert resolves or rejects.  A rejection of the first insert
\* enters the catch block; a rejection inside the catch block rejects the
\* promise, which the handler's `.catch` logs.
EmailLogRow(m, status, response) ==
  [submission_id |-> m.submission_id, status |-> status,
   provider_response |-> response]
\* (a handler that starts the task without `.catch`)
NoBackgroundCatch == FALSE
\* `.catch(error => console.error('Background email error:', error))`
BackgroundCatch == TRUE
\* (a catch block that runs like a `finally`)
AfterLogAlwaysCatch(m, outcome) ==
  IF m.pc = "log"
  THEN [m EXCEPT !.pc = "catch_log", !.status = "failed",
                 !.provider_response = "String(error)"]
  ELSE [m EXCEPT !.pc = "done", !.rejected = (outcome = "throw"),
                 !.unhandled = (outcome = "throw") /\ ~BackgroundCatch]
\* Where the task goes when an email_logs insert has resolved or rejected.
AfterLog(m, outcome) ==
  IF outcome = "throw" /\ m.pc = "log"
  THEN [m EXCEPT !.pc = "catch_log", !.status = "failed",
                 !.provider_response = "String(error)"]
  ELSE [m EXCEPT !.pc = "done", !.rejected = (outcome = "throw"),
                 !.unhandled = (outcome = "throw") /\ ~BackgroundCatch]
LogEmail(i, outcome) ==
  LET m0 == mail[i]
      m == [m0 EXCEPT !.trace = Append(m0.trace, <<m0.pc, outcome>>)]
  IN /\ m0.pc \in {"log", "catch_log"}
     /\ email_logs' = IF outcome = "ok"
                      THEN Append(email_logs,
                                  EmailLogRow(m, m.status, m.provider_response))
                      ELSE email_logs
     /\ mail' = [mail EXCEPT ![i] = AfterLog(m, outcome)]
     /\ UNCHANGED <<now, submissionCache, last, sideVars, handler, submissions,
                    spam_signals>>

\* --------------------------------------------------------- the function
Next ==
  \/ Tick(IntakeHorizon)
  \/ \E s \in DOMAIN handler : \E r \in Requests(now) : Receive(s, r)
  \/ \E s \in DOMAIN handler : \E o \in Outcomes : LookupForm(s, o)
  \/ \E s \in DOMAIN handler : Evaluate(s)
  \/ \E s \in DOMAIN handler : \E o \in Outcomes : InsertSubmission(s, o)
  \/ \E s \in DOMAIN handler : \E o \in Outcomes : InsertSignals(s, o)
  \/ \E i \in DOMAIN mail : \E o \in Outcomes : SendEmail(i, o)
  \/ \E i \in DOMAIN mail : \E o \in Outcomes : LogEmail(i, o)

Spec == Init /\ [][Next]_vars

\* ------------------------------------- the function under repeated posts
\* One origin posting a payload without control fields to a form without a
\* notification address (so that no sendNotificationEmail is ever started),
\* with a database that answers every query.
RateRequests == {Post("F2", <<"1.2.3.4", "">>, ("name" :> Str(Text)))}
InFlight == Cardinality({s \in DOMAIN handler : handler[s].pc \notin {"idle", "done"}})

InitRate == InitWith(MaxRateCalls)

NextRate ==
  \/ Tick(Horizon)
  \/ (InFlight < MaxInFlight
      /\ \E s \in DOMAIN handler : \E r \in RateRequests : Receive(s, r))
  \/ \E s \in DOMAIN handler : LookupForm(s, "ok")
  \/ \E s \in DOMAIN handler : Evaluate(s)
  \/ \E s \in DOMAIN handler : InsertSubmission(s, "ok")
  \/ \E s \in DOMAIN handler : InsertSignals(s, "ok")

SpecRate == InitRate /\ [][NextRate]_vars

\* ------------------------------------------- the middleware under requests
\* `req.headers.get('x-forwarded-for') || '127.0.0.1'`
ForwardedIp(xff) == IF xff = "" THEN "127.0.0.1" ELSE xff
\* The x-forwarded-for headers the requests carry ("" when there is none).
ForwardedFor == {"", "203.0.113.7"}
\* The calls rateLimit has counted in the entries it holds.
RECURSIVE Counted(_)
Counted(limits) ==
  IF DOMAIN limits = {} THEN 0
  ELSE LET ip == CHOOSE k \in DOMAIN limits : TRUE
       IN limits[ip].count + Counted([k \in DOMAIN limits \ {ip} |-> limits[k]])

\* Date.now() moves on by one middleware window.
LimitTick ==
  /\ ~limited.called
  /\ now + RateLimitWindowMs <= T0 + LimitHorizon * RateLimitWindowMs
  /\ now' = now + RateLimitWindowMs
  /\ UNCHANGED <<submissionCache, last, pipeVars, rateLimits, limited, page>>

\* withRateLimit takes a request and calls rateLimit(ip); `limited` holds the
\* call and what it returned until the response has been built.
LimitCall(xff) ==
  LET ip == ForwardedIp(xff)
      r == rateLimit(ip, rateLimits, now)
  IN /\ ~limited.called
     /\ Counted(rateLimits) < MaxCount
     /\ rateLimits' = r.limits
     /\ limited' = [called |-> TRUE, ip |-> ip, at |-> now,
                    before |-> rateLimits, result |-> r.result]
     /\ UNCHANGED <<now, submissionCache, last, pipeVars, page>>

\* The 429 response, or the wrapped handler's, has been returned.
LimitReturn ==
  /\ limited.called
  /\ limited' = NoLimitCall
  /\ UNCHANGED <<now, submissionCache, last, pipeVars, rateLimits, page>>

\* The hourly setInterval callback, when it has something to delete.
Cleanup ==
  LET old == {ip \in DOMAIN rateLimits :
                now > rateLimits[ip].resetTime + RateLimitWindowMs}
  IN /\ ~limited.called
     /\ old # {}
     /\ rateLimits' = [ip \in DOMAIN rateLimits \ old |-> rateLimits[ip]]
     /\ UNCHANGED <<now, submissionCache, last, pipeVars, limited, page>>

NextLimit ==
  \/ LimitTick
  \/ \E xff \in ForwardedFor : LimitCall(xff)
  \/ LimitReturn
  \/ Cleanup

SpecLimit == Init /\ [][NextLimit]_vars

\* ------------------------------------------ the embed script in a browser
\* The address the browser's requests come from.
BrowserIp == "1.2.3.4"

\* Date.now() moves on by half the minimum fill time.
EmbedTick ==
  /\ now + (MinSeconds * 1000) \div 2 <= T0 + EmbedHorizon * ((MinSeconds * 1000) \div 2)
  /\ now' = now + (MinSeconds * 1000) \div 2
  /\ UNCHANGED <<submissionCache, last, pipeVars, rateLimits, limited, page>>

\* The script runs: the form, with its two empty hidden inputs, is appended
\* to the page and the user starts on it.
PageLoad ==
  /\ page.pc = "none"
  /\ page' = [page EXCEPT !.pc = "open", !.loadedAt = now]
  /\ UNCHANGED <<now, submissionCache, last, pipeVars, rateLimits, limited>>

\* The submit listener: the form's entries, `__timestamp` overwritten with
\* Date.now().toString(), are posted.
PageSubmit ==
  /\ page.pc = "open"
  /\ page' = [page EXCEPT
               !.pc = "posted",
               !.sentAt = now,
               !.data = ("name" :> Str(Text)) @@ (HONEYPOT :> Str(<<>>))
                          @@ (TIMESTAMP :> Str(IntToStr(now)))]
  /\ UNCHANGED <<now, submissionCache, last, pipeVars, rateLimits, limited>>

\* The request reaches the function, which calls detectSpam(payload, ip).
PageArrive ==
  LET r == detectSpam(page.data, BrowserIp, submissionCache, now)
  IN /\ page.pc = "posted"
     /\ submissionCache' = r.cache
     /\ page' = [page EXCEPT !.pc = "arrived", !.arrivedAt = now,
                              !.result = r.result]
     /\ UNCHANGED <<now, last, pipeVars, rateLimits, limited>>

\* The response is back: the listener alerts, resets the form on success,
\* and the user may fill it in again.
PageResponse ==
  /\ page.pc = "arrived"
  /\ page' = [page EXCEPT !.pc = "open", !.loadedAt = now]
  /\ UNCHANGED <<now, submissionCache, last, pipeVars, rateLimits, limited>>

NextEmbed ==
  \/ EmbedTick
  \/ PageLoad
  \/ PageSubmit
  \/ PageArrive
  \/ PageResponse

SpecEmbed == Init /\ [][NextEmbed]_vars

\* ------------------------------------------------- claims about detectSpam
NonEmpty(data, k) == k \in DOMAIN data /\ data[k].val # <<>>
EmptyOrAbsent(data, k) == k \notin DOMAIN data \/ data[k].val = <<>>
Range(q) == {q[i] : i \in DOMAIN q}
SignalNames(v) == {v.signals[i].signal : i \in 1..Len(v.signals)}
\* How many timestamps recorded for ip lie inside the trailing window of t.
InWindow(cache, ip, t) ==
  IF ip \in DOMAIN cache
  THEN Cardinality({i \in 1..Len(cache[ip]) : cache[ip][i] > t - WindowMs})
  ELSE 0

HoneypotVerdict ==
  Verdict(TRUE, "Honeypot field was filled", <<Signal("honeypot_filled", 100)>>)
TooFastVerdict ==
  Verdict(TRUE, "Form submitted too quickly", <<Signal("too_fast", 80)>>)
RateVerdict ==
  Verdict(TRUE, "Too many submissions from this IP",
          <<Signal("rate_limit_exceeded", 90)>>)

\* C1: a detectSpam call whose payload has a non-empty __honeypot returns
\* isSpam = true, reason 'Honeypot field was filled' and exactly the signal
\* list [{honeypot_filled, 100}], whatever the timestamp, history and fields.
C1_HoneypotDecisive ==
  (last.called /\ NonEmpty(last.data, HONEYPOT)) => last.result = HoneypotVerdict

\* A honeypot call that also carries a too-fast timestamp and three URLs, from
\* an origin whose window is already full.
C1_Witness ==
  /\ last.called
  /\ NonEmpty(last.data, HONEYPOT)
  /\ TIMESTAMP \in DOMAIN last.data
  /\ last.data[TIMESTAMP] = Str(IntToStr(last.at))
  /\ "message" \in DOMAIN last.data
  /\ last.data["message"] = Str(ThreeUrls)
  /\ InWindow(last.before, last.ip, last.at) = 3
  /\ last.result = HoneypotVerdict

\* C2: with an empty or absent honeypot, a client timestamp taken less than
\* 2000 ms before the evaluation time yields the too_fast verdict; a payload
\* without __timestamp never yields the too_fast signal.
C2_TimingDecisive ==
  last.called =>
    /\ (/\ EmptyOrAbsent(last.data, HONEYPOT)
        /\ TIMESTAMP \in DOMAIN last.data
        /\ \E d \in ClockOffsets :
             /\ 0 <= d /\ d < 2000
             /\ last.data[TIMESTAMP].val = IntToStr(last.at - d))
       => last.result = TooFastVerdict
    /\ TIMESTAMP \notin DOMAIN last.data
       => "too_fast" \notin SignalNames(last.result)

\* A timestamp 1999 ms old, honeypot present but empty: too_fast.
C2_Witness ==
  /\ last.called
  /\ HONEYPOT \in DOMAIN last.data
  /\ last.data[HONEYPOT] = Str(<<>>)
  /\ TIMESTAMP \in DOMAIN last.data
  /\ last.data[TIMESTAMP] = Str(IntToStr(last.at - 1999))
  /\ last.result = TooFastVerdict

PassedHoneypotAndTiming ==
  /\ last.called
  /\ last.result # HoneypotVerdict
  /\ last.result # TooFastVerdict

\* C3: for a call that passes the honeypot and timing checks, exactly 3
\* timestamps of its origin inside the trailing 5-minute window give the
\* rate_limit_exceeded verdict, and 2 or fewer never give it.
C3_RateBoundary ==
  PassedHoneypotAndTiming =>
    /\ InWindow(last.before, last.ip, last.at) = 3 => last.result = RateVerdict
    /\ InWindow(last.before, last.ip, last.at) <= 2
       => /\ "rate_limit_exceeded" \notin SignalNames(last.result)
          /\ last.result.reason # "Too many submissions from this IP"

\* The fourth call of an origin inside the window is blocked.
C3_Witness ==
  /\ PassedHoneypotAndTiming
  /\ InWindow(last.before, last.ip, last.at) = 3
  /\ last.result = RateVerdict

\* ------------------------------------------------ claims about the handler
Calls == DOMAIN handler
\* The submissions row an invocation created (submissionId is set only when
\* the insert resolved without error).
Persisted(s) == handler[s].submissionId # 0
RowOf(s) == submissions[handler[s].submissionId]
Faulted(s, step) ==
  <<step, "error">> \in handler[s].faults \/ <<step, "throw">> \in handler[s].faults
SignalRowsFor(id) == SelectSeq(spam_signals, LAMBDA r : r.submission_id = id)
LogRowsFor(id) == SelectSeq(email_logs, LAMBDA r : r.submission_id = id)
MailFor(id) == SelectSeq(mail, LAMBDA m : m.submission_id = id)
ControlKeys == {HONEYPOT, TIMESTAMP}

\* C5: the payload of every submissions row lacks __honeypot and __timestamp
\* and agrees with the raw payload on every other key, for spam and non-spam
\* alike, while the verdict stored with it is the one of the raw payload.
C5_StoredPayloadClean ==
  /\ \A i \in DOMAIN submissions :
       DOMAIN submissions[i].payload \cap ControlKeys = {}
  /\ \A s \in Calls : Persisted(s) =>
       LET raw == handler[s].req.body
           row == RowOf(s)
       IN /\ DOMAIN row.payload = DOMAIN raw \ ControlKeys
          /\ \A k \in DOMAIN row.payload : row.payload[k] = raw[k]
          /\ NonEmpty(raw, HONEYPOT) => row.is_spam

\* A bot's submission with both control fields, stored as spam with only the
\* name field left.
C5_Witness ==
  \E s \in Calls :
    /\ Persisted(s)
    /\ ControlKeys \subseteq DOMAIN handler[s].req.body
    /\ NonEmpty(handler[s].req.body, HONEYPOT)
    /\ RowOf(s).is_spam
    /\ RowOf(s).payload = ("name" :> Str(Text))

\* The rows stored as legitimate for origin ip whose call was evaluated in
\* the 5 minutes (300000 clock readings) that end with reading t.
AcceptedInWindow(ip, t) ==
  {i \in DOMAIN submissions :
     /\ submissions[i].ip = ip
     /\ ~submissions[i].is_spam
     /\ submissions[i].at > t - WindowMs
     /\ submissions[i].at <= t}

\* C4: in one process, for every origin and every 5-minute interval, at most
\* 3 submissions of that origin evaluated inside the interval are stored with
\* is_spam = false.  (Every interval that holds such rows lies inside the
\* interval of the same length that ends with the last of them.)
C4_AtMostThreePerWindow ==
  \A i \in DOMAIN submissions :
    Cardinality(AcceptedInWindow(submissions[i].ip, submissions[i].at)) <= 3

\* Three submissions of an origin stored as legitimate and a fourth,
\* evaluated inside the same window, stored as spam for the rate.
C4_Witness ==
  \E i \in DOMAIN submissions :
    /\ submissions[i].is_spam
    /\ submissions[i].spam_reason = "Too many submissions from this IP"
    /\ Cardinality(AcceptedInWindow(submissions[i].ip, submissions[i].at)) = 3

NotFound == Response(404, ErrorBody("Form not found or inactive"))
NamesNoActiveForm(id) == ~\E f \in FormsTable : f.id = id /\ f.is_active
Exists(id) == \E f \in FormsTable : f.id = id

\* C6: a call for a form id that names no form and a call for a form that
\* exists but is inactive both end, once the forms query has resolved, with
\* the one 404 response, having attempted no insert and no dispatch; no row
\* of any table and no notification belongs to such a form.
C6_InactiveAsAbsent ==
  /\ \A s \in Calls :
       (/\ handler[s].pc = "done"
        /\ handler[s].formId # ""
        /\ NamesNoActiveForm(handler[s].formId)
        /\ <<"lookup", "throw">> \notin handler[s].faults)
       => /\ handler[s].response = NotFound
          /\ handler[s].trace = <<"lookup">>
          /\ ~Persisted(s)
  /\ \A i \in DOMAIN submissions : ~NamesNoActiveForm(submissions[i].form_id)
  /\ \A i \in DOMAIN spam_signals :
       spam_signals[i].submission_id \in DOMAIN submissions
  /\ \A i \in DOMAIN email_logs :
       email_logs[i].submission_id \in DOMAIN submissions
  /\ \A i \in DOMAIN mail : mail[i].submission_id \in DOMAIN submissions

\* A call for the inactive form F3, answered 404 though the forms query found
\* no fault.
C6_Witness ==
  \E s \in Calls :
    /\ handler[s].pc = "done"
    /\ Exists(handler[s].formId)
    /\ NamesNoActiveForm(handler[s].formId)
    /\ handler[s].faults = {}
    /\ handler[s].response = NotFound

\* C7: every call to an active form whose submission was stored is answered
\* with status 200 and the body {success, message, submission_id}, whatever
\* the verdict and whatever happens to the later, best-effort steps.
C7_ResponseHidesVerdict ==
  \A s \in Calls :
    (handler[s].pc = "done" /\ Persisted(s))
    => handler[s].response = Response(200, SuccessBody(handler[s].submissionId))

\* C8: the submissions row carries the evaluator's isSpam and reason, a call
\* classified spam whose insert resolved has its row, and once the
\* spam_signals insert has resolved the table holds exactly one row per
\* returned signal for that submission, with the signal's name and score.
C8_SpamPersisted ==
  \A s \in Calls :
    LET h == handler[s]
    IN /\ Persisted(s) =>
            /\ RowOf(s).is_spam = h.spamCheck.isSpam
            /\ RowOf(s).spam_reason = h.spamCheck.reason
            /\ \A i \in DOMAIN SignalRowsFor(h.submissionId) :
                 \E j \in DOMAIN h.spamCheck.signals :
                   /\ SignalRowsFor(h.submissionId)[i].signal = h.spamCheck.signals[j].signal
                   /\ SignalRowsFor(h.submissionId)[i].score = h.spamCheck.signals[j].score
       /\ (h.pc \in {"signals", "done"} /\ "insert_submission" \in Range(h.trace)
           /\ ~Faulted(s, "insert_submission"))
          => Persisted(s)
       /\ (h.pc = "done" /\ Persisted(s) /\ ~Faulted(s, "insert_signals"))
          => /\ Len(SignalRowsFor(h.submissionId)) = Len(h.spamCheck.signals)
             /\ \A i \in DOMAIN h.spamCheck.signals :
                  /\ SignalRowsFor(h.submissionId)[i].signal = h.spamCheck.signals[i].signal
                  /\ SignalRowsFor(h.submissionId)[i].score = h.spamCheck.signals[i].score

\* The honeypot scenario: answered, stored as spam with its reason, one
\* signal row.
C8_Witness ==
  \E s \in Calls :
    /\ handler[s].pc = "done"
    /\ Persisted(s)
    /\ handler[s].spamCheck = HoneypotVerdict
    /\ RowOf(s).is_spam
    /\ RowOf(s).spam_reason = "Honeypot field was filled"
    /\ SignalRowsFor(handler[s].submissionId)
         = <<[submission_id |-> handler[s].submissionId,
              signal |-> "honeypot_filled", score |-> 100]>>

\* C9: a call whose submissions insert fails is answered with status 500 and
\* has attempted neither the spam_signals insert nor the dispatch; it leaves
\* no submissions row, and every spam_signals row, email_logs row and
\* notification refers to a call whose insert succeeded.
C9_FailedInsertLeavesNothing ==
  /\ \A s \in Calls : Faulted(s, "insert_submission") =>
       /\ handler[s].pc = "done"
       /\ handler[s].response.status = 500
       /\ ~Persisted(s)
       /\ "insert_signals" \notin Range(handler[s].trace)
       /\ "dispatch" \notin Range(handler[s].trace)
  /\ Len(submissions) = Cardinality({s \in Calls : Persisted(s)})
  /\ \A i \in DOMAIN spam_signals :
       \E s \in Calls : Persisted(s) /\ handler[s].submissionId = spam_signals[i].submission_id
  /\ \A i \in DOMAIN email_logs :
       \E s \in Calls : Persisted(s) /\ handler[s].submissionId = email_logs[i].submission_id
  /\ \A i \in DOMAIN mail :
       \E s \in Calls : Persisted(s) /\ handler[s].submissionId = mail[i].submission_id

\* A legitimate submission to a form with a notification address whose insert
\* came back with an error: 500, and nothing in any table.
C9_Witness ==
  \E s \in Calls :
    /\ <<"insert_submission", "error">> \in handler[s].faults
    /\ ~handler[s].spamCheck.isSpam
    /\ handler[s].form.notification_email # ""
    /\ handler[s].response = Response(500, ErrorBody("Failed to save submission"))
    /\ submissions = <<>> /\ spam_signals = <<>> /\ email_logs = <<>> /\ mail = <<>>

\* C10: a call whose submissions insert succeeded and whose spam_signals
\* insert then failed, by an error result or by rejecting, is answered with
\* the 200 success response carrying the submission id.
C10_SignalFailureSwallowed ==
  \A s \in Calls :
    (handler[s].pc = "done" /\ Persisted(s) /\ Faulted(s, "insert_signals"))
    => handler[s].response = Response(200, SuccessBody(handler[s].submissionId))

\* ------------------------------------------- claims about the notification
Dispatched(s) == "dispatch" \in Range(handler[s].trace)
OkResponse(s) == Response(200, SuccessBody(handler[s].submissionId))
Finished(i) == mail[i].pc = "done"
\* How the awaited mail send of a task ended ("" while it is pending).
SendOutcome(m) == IF m.trace = <<>> THEN "" ELSE m.trace[1][2]
LastOutcome(m) == m.trace[Len(m.trace)][2]

\* C11: a call that has returned has dispatched a notification if and only
\* if its submission was stored, the verdict was not spam and the form has a
\* notification address; no notification and no email_logs row refers to a
\* row stored as spam or to a form without a notification address.
C11_DispatchIffLegitWithAddress ==
  /\ \A s \in Calls : handler[s].pc = "done" =>
       (Dispatched(s) <=>
          /\ Persisted(s)
          /\ ~handler[s].spamCheck.isSpam
          /\ handler[s].form.notification_email # "")
  /\ \A s \in Calls : Dispatched(s) <=> Len(MailFor(handler[s].submissionId)) = 1
  /\ \A s \in Calls :
       (Persisted(s) /\ (RowOf(s).is_spam \/ handler[s].form.notification_email = ""))
       => /\ MailFor(handler[s].submissionId) = <<>>
          /\ LogRowsFor(handler[s].submissionId) = <<>>

\* C12: a call that dispatched a notification has returned the 200 success
\* response, and that stays so in every state of the notification task
\* (pending for ever, error, rejection); a rejection of the task is taken by
\* the handler's `.catch`, never left unhandled.
C12_MailNeverReachesCaller ==
  /\ \A s \in Calls : Dispatched(s) =>
       /\ handler[s].pc = "done"
       /\ handler[s].response = OkResponse(s)
  /\ \A i \in DOMAIN mail :
       /\ ~mail[i].unhandled
       /\ \E s \in Calls :
            /\ handler[s].submissionId = mail[i].submission_id
            /\ handler[s].response = OkResponse(s)

\* The mail send rejected and the insert of the catch block rejected too: the
\* task's promise rejected, the caller still has its 200.
C12_Witness ==
  \E i \in DOMAIN mail : \E s \in Calls :
    /\ Finished(i)
    /\ mail[i].rejected
    /\ mail[i].trace = <<<<"send", "throw">>, <<"catch_log", "throw">>>>
    /\ handler[s].submissionId = mail[i].submission_id
    /\ handler[s].response = OkResponse(s)
    /\ email_logs = <<>>

TaskOf(r) == MailFor(r.submission_id)[1]

\* C14 (as stated): an email_logs row has status 'sent' exactly when the mail
\* send resolved without error, and status 'failed' with the captured error
\* when it resolved with an error or rejected.
C14_SentIffAccepted ==
  \A k \in DOMAIN email_logs :
    LET r == email_logs[k]
        sent == SendOutcome(TaskOf(r))
    IN /\ r.status = "sent" <=> sent = "ok"
       /\ sent \in {"error", "throw"}
          => /\ r.status = "failed"
             /\ r.provider_response \in {"error.message", "String(error)"}

\* C14 (amended): a row has status 'sent' only when the mail send resolved
\* without error (and then carries the provider's data); it has status
\* 'failed' with the captured error when the send resolved with an error or
\* rejected, and also when the send was accepted but the first email_logs
\* insert rejected; whenever that insert rejected the row carries the
\* insert's error, not the provider's.
C14_SentOnlyIfAccepted ==
  \A k \in DOMAIN email_logs :
    LET r == email_logs[k]
        m == TaskOf(r)
        sent == SendOutcome(m)
    IN /\ r.status \in {"sent", "failed"}
       /\ r.status = "sent" => sent = "ok" /\ r.provider_response = "data"
       /\ sent = "error"
          => /\ r.status = "failed"
             /\ r.provider_response =
                  IF <<"log", "throw">> \in Range(m.trace)
                  THEN "String(error)" ELSE "error.message"
       /\ sent = "throw" => r.status = "failed" /\ r.provider_response = "String(error)"
       /\ (sent = "ok" /\ r.status = "failed")
          => /\ <<"log", "throw">> \in Range(m.trace)
             /\ r.provider_response = "String(error)"
       /\ (sent = "ok" /\ <<"log", "throw">> \notin Range(m.trace))
          => r.status = "sent"

\* The provider answered with an error: one 'failed' row with its message.
C14_Witness ==
  \E k \in DOMAIN email_logs :
    /\ SendOutcome(TaskOf(email_logs[k])) = "error"
    /\ email_logs[k].status = "failed"
    /\ email_logs[k].provider_response = "error.message"

\* ------------------------------------------ claims about concurrent calls
Evaluated(s) == "evaluate" \in Range(handler[s].trace)
\* The calls of origin ip that went past the rate check.
PassedRate(ip) ==
  {s \in Calls : /\ Evaluated(s)
                 /\ handler[s].ip = ip
                 /\ handler[s].spamCheck
                      \notin {HoneypotVerdict, TooFastVerdict, RateVerdict}}
Max(S) == CHOOSE x \in S : \A y \in S : y <= x
Occurrences(q, x) == Cardinality({i \in DOMAIN q : q[i] = x})

\* C15: whatever the interleaving of the calls of an origin, the origin's
\* list holds one timestamp for each of its calls that went past the rate
\* check inside the window of the latest of them (none is lost, also when two
\* are evaluated at the same clock reading), and no more than 3 calls of the
\* origin evaluated inside a 5-minute interval go past the rate check.
C15_NoLostAppend ==
  \A ip \in IPs \cup {"unknown"} :
    LET P == PassedRate(ip)
        latest == Max({handler[s].evalAt : s \in P})
    IN P # {} =>
         /\ ip \in DOMAIN submissionCache
         /\ \A s \in P :
              handler[s].evalAt > latest - WindowMs
              => Occurrences(submissionCache[ip], handler[s].evalAt)
                   = Cardinality({s2 \in P : handler[s2].evalAt = handler[s].evalAt})
         /\ \A s \in P :
              Cardinality({s2 \in P :
                             /\ handler[s2].evalAt > handler[s].evalAt - WindowMs
                             /\ handler[s2].evalAt <= handler[s].evalAt}) <= 3

\* Two calls of one origin in flight together, evaluated at the same clock
\* reading: the first was the third of its window and went past the rate
\* check, the second was blocked, and the list holds three timestamps.
C15_Witness ==
  \E s1, s2 \in Calls :
    /\ s1 # s2
    /\ handler[s1].pc = "insert" /\ handler[s2].pc = "insert"
    /\ handler[s1].ip = handler[s2].ip
    /\ handler[s1].evalAt = handler[s2].evalAt
    /\ s1 \in PassedRate(handler[s1].ip)
    /\ handler[s2].spamCheck = RateVerdict
    /\ Len(submissionCache[handler[s1].ip]) = 3
    /\ Occurrences(submissionCache[handler[s1].ip], handler[s1].evalAt) >= 1

\* ------------------------------------------- more claims about detectSpam
\* The cache with only the entry of origin ip (if it has one).
Alone(cache, ip) == [k \in DOMAIN cache \cap {ip} |-> cache[k]]
SameEntry(c1, c2, ip) ==
  /\ ip \in DOMAIN c1 <=> ip \in DOMAIN c2
  /\ ip \in DOMAIN c1 => c1[ip] = c2[ip]

\* C16: a detectSpam call for origin A leaves the entry of every other origin
\* as it was, and returns the result and leaves the list for A that the same
\* call would give if the cache held A's entry only; so in every interleaving
\* each origin gets the outcomes it would get alone.
C16_OriginsIndependent ==
  last.called =>
    LET alone == detectSpam(last.data, last.ip, Alone(last.before, last.ip), last.at)
    IN /\ \A ip \in IPs \ {last.ip} : SameEntry(submissionCache, last.before, ip)
       /\ last.result = alone.result
       /\ Alone(submissionCache, last.ip) = alone.cache

\* A first call of one origin while the other origin's window is full: it is
\* classified legitimate and recorded, and the other list is untouched.
C16_Witness ==
  /\ last.called
  /\ \E ip \in IPs \ {last.ip} :
       /\ InWindow(last.before, ip, last.at) = 3
       /\ submissionCache[ip] = last.before[ip]
  /\ last.ip \notin DOMAIN last.before
  /\ last.result = NoVerdict
  /\ submissionCache[last.ip] = <<last.at>>

\* Some string field of the payload holds at least n URL prefixes.
UrlsInAField(data, n) ==
  \E k \in DOMAIN data : data[k].typ = "string" /\ UrlCount(data[k].val) >= n
UrlVerdict == Verdict(FALSE, "", <<Signal("multiple_urls", 60)>>)

\* C18: a call that passes the honeypot, timing and rate checks returns
\* exactly the signal list [{multiple_urls, 60}] with isSpam = false and an
\* empty reason when a string field holds 3 or more URL prefixes, and no
\* signal at all when no string field holds more than 2.
C18_UrlsAloneAreLegitimate ==
  (PassedHoneypotAndTiming /\ last.result # RateVerdict) =>
    /\ UrlsInAField(last.data, 3) => last.result = UrlVerdict
    /\ ~UrlsInAField(last.data, 3) => last.result = NoVerdict

\* Three URLs in the message of a patient caller with two earlier calls in
\* the window.
C18_Witness ==
  /\ last.called
  /\ "message" \in DOMAIN last.data /\ last.data["message"] = Str(ThreeUrls)
  /\ TIMESTAMP \in DOMAIN last.data
  /\ last.data[TIMESTAMP] = Str(IntToStr(last.at - 2000))
  /\ InWindow(last.before, last.ip, last.at) = 2
  /\ last.result = UrlVerdict

\* The timestamps of the caller's list before the call that lie inside the
\* trailing window of the call.
KeptBefore ==
  IF last.ip \in DOMAIN last.before
  THEN SelectSeq(last.before[last.ip], LAMBDA ts : ts > last.at - WindowMs)
  ELSE <<>>
AppendedOne ==
  /\ last.ip \in DOMAIN submissionCache
  /\ submissionCache[last.ip] = KeptBefore \o <<last.at>>
  /\ \A ip \in DOMAIN submissionCache \ {last.ip} :
       SameEntry(submissionCache, last.before, ip)

\* C19 (as stated): every call that does not return rate_limit_exceeded
\* leaves the caller's list as its in-window timestamps followed by exactly
\* one new one, the evaluation time.
C19_OneAppendUnlessRateBlocked ==
  (last.called /\ last.result # RateVerdict) => AppendedOne

\* C19 (amended): a call that passes the honeypot and timing checks and is
\* not rate-blocked leaves the caller's list as its in-window timestamps
\* followed by exactly one new one, the evaluation time; a call stopped by
\* the honeypot or the timing check leaves the cache as it was; no call adds
\* more than one timestamp.
C19_OneAppendPerCountedCall ==
  last.called =>
    /\ (PassedHoneypotAndTiming /\ last.result # RateVerdict) => AppendedOne
    /\ last.result \in {HoneypotVerdict, TooFastVerdict}
       => submissionCache = last.before
    /\ \A ip \in DOMAIN submissionCache :
         Len(submissionCache[ip])
           <= (IF ip \in DOMAIN last.before THEN Len(last.before[ip]) ELSE 0) + 1

\* The third call of an origin inside its window: two timestamps before,
\* three after, the last one the evaluation time.
C19_Witness ==
  /\ PassedHoneypotAndTiming
  /\ last.result # RateVerdict
  /\ Len(KeptBefore) = 2
  /\ Len(submissionCache[last.ip]) = 3
  /\ submissionCache[last.ip][3] = last.at

\* C20: a call that returns rate_limit_exceeded leaves submissionCache, the
\* caller's entry and every other, exactly as it was before the call.
C20_BlockedCallLeavesCache ==
  (last.called /\ "rate_limit_exceeded" \in SignalNames(last.result))
  => submissionCache = last.before

\* A blocked call, made when the clock has moved on since the caller's three
\* recorded calls and another origin has an entry as well.
C20_Witness ==
  /\ last.called
  /\ last.result = RateVerdict
  /\ Len(KeptBefore) = 3
  /\ last.at \notin Range(last.before[last.ip])
  /\ \E ip \in IPs \ {last.ip} : ip \in DOMAIN last.before
  /\ submissionCache = last.before

\* ------------------------------------------ claims about rejected requests
\* A request whose URL has no form id after the function's name.
MissingId(r) == r.path = BasePath \/ r.path[Len(r.path)] = ""
\* A call that got as far as reading a body that does not parse.
BodyUnparseable(s) == <<"json", "throw">> \in handler[s].faults

\* C17: a call without a form identifier and a call whose body does not
\* parse are answered with status 400, having attempted no insert and no
\* dispatch and stored no row.
C17_BadRequestIs400 ==
  \A s \in Calls :
    (/\ handler[s].pc = "done"
     /\ handler[s].req.method = "POST"
     /\ (MissingId(handler[s].req) \/ BodyUnparseable(s))
     /\ ~Faulted(s, "lookup"))
    => /\ handler[s].response.status = 400
       /\ ~Persisted(s)
       /\ Range(handler[s].trace) \subseteq {"lookup"}

\* ------------------------------------------- claims about the stored rows
InsertsAttempted(s) ==
  Cardinality({i \in DOMAIN handler[s].trace : handler[s].trace[i] = "insert_submission"})

\* C21: a call issues at most one submissions insert; a call answered with
\* the 200 success response has exactly one row, a call answered 400 or 404
\* issued no insert and has none; every row belongs to exactly one call and
\* stays, in every later state, the row that call inserted.
C21_OneInsertPerCall ==
  /\ \A s \in Calls :
       /\ InsertsAttempted(s) <= 1
       /\ (handler[s].pc = "done" /\ handler[s].response = OkResponse(s))
          => /\ InsertsAttempted(s) = 1
             /\ Persisted(s)
             /\ handler[s].submissionId \in DOMAIN submissions
       /\ handler[s].response.status \in {400, 404}
          => /\ InsertsAttempted(s) = 0
             /\ ~Persisted(s)
       /\ Persisted(s)
          => RowOf(s) = SubmissionRow(handler[s], handler[s].submissionId)
  /\ \A i \in DOMAIN submissions :
       /\ submissions[i].id = i
       /\ Cardinality({s \in Calls : handler[s].submissionId = i}) = 1

\* A stored submission whose notification task has run to its end: the row is
\* still the one inserted.
C21_Witness ==
  \E s \in Calls : \E i \in DOMAIN mail :
    /\ handler[s].response = OkResponse(s)
    /\ Persisted(s)
    /\ mail[i].submission_id = handler[s].submissionId
    /\ Finished(i)
    /\ submissions = <<SubmissionRow(handler[s], 1)>>

DecisiveVerdicts == {HoneypotVerdict, TooFastVerdict, RateVerdict}

\* C26: every result of detectSpam has at most one signal; isSpam is true
\* exactly when the result is one of the three decisive verdicts (honeypot,
\* timing, rate); a result reached through the scoring step has isSpam =
\* false and an empty reason, so 'Spam score threshold exceeded' is never
\* returned.
C26_OnlyDecisiveChecksGiveSpam ==
  last.called =>
    /\ Len(last.result.signals) <= 1
    /\ last.result.isSpam <=> last.result \in DecisiveVerdicts
    /\ last.result \notin DecisiveVerdicts
       => /\ ~last.result.isSpam
          /\ last.result.reason = ""
          /\ SignalNames(last.result) \subseteq {"multiple_urls"}
    /\ last.result.reason # "Spam score threshold exceeded"

\* The highest score the scoring step can reach: three URLs and a timestamp
\* that does not parse.
C26_Witness ==
  /\ last.called
  /\ TIMESTAMP \in DOMAIN last.data
  /\ last.data[TIMESTAMP] = Str(<<"a", "b", "c">>)
  /\ UrlsInAField(last.data, 3)
  /\ last.result.signals = <<Signal("multiple_urls", 60)>>
  /\ ~last.result.isSpam
  /\ last.result.reason = ""

\* The payload's __timestamp is the decimal form of a clock reading later
\* than the one the evaluation reads.
TimestampAhead ==
  /\ last.called
  /\ TIMESTAMP \in DOMAIN last.data
  /\ \E d \in ClockOffsets : d < 0 /\ last.data[TIMESTAMP].val = IntToStr(last.at - d)

\* C30 (as stated): a call whose __timestamp lies after the evaluation time
\* returns the too_fast verdict and leaves the cache as it was.
C30_FutureTimestampTooFast ==
  TimestampAhead => last.result = TooFastVerdict /\ submissionCache = last.before

\* C30 (amended): a call with an empty or absent honeypot whose __timestamp
\* lies after the evaluation time, by 1 ms or by a day, returns the too_fast
\* verdict and leaves the cache as it was; with a filled honeypot the call
\* returns the honeypot verdict, and leaves the cache as it was too.
C30_FutureTimestampAfterHoneypot ==
  TimestampAhead =>
    /\ EmptyOrAbsent(last.data, HONEYPOT) => last.result = TooFastVerdict
    /\ NonEmpty(last.data, HONEYPOT) => last.result = HoneypotVerdict
    /\ submissionCache = last.before

\* A timestamp one day ahead, from an origin with room in its window.
C30_Witness ==
  /\ last.called
  /\ EmptyOrAbsent(last.data, HONEYPOT)
  /\ TIMESTAMP \in DOMAIN last.data
  /\ last.data[TIMESTAMP] = Str(IntToStr(last.at + 86400000))
  /\ InWindow(last.before, last.ip, last.at) = 2
  /\ last.result = TooFastVerdict
  /\ submissionCache = last.before

\* C29: every origin present in submissionCache maps to a list of at least 1
\* and at most 3 timestamps.
C29_ListsHoldOneToThree ==
  \A ip \in DOMAIN submissionCache :
    Len(submissionCache[ip]) >= 1 /\ Len(submissionCache[ip]) <= 3

\* One origin with a full list, just blocked, and the other with one entry.
C29_Witness ==
  /\ last.called
  /\ last.result = RateVerdict
  /\ Len(submissionCache[last.ip]) = 3
  /\ \E ip \in DOMAIN submissionCache : Len(submissionCache[ip]) = 1

\* ---------------------------------------- claims about the rate window
\* C22: a call that passes the honeypot and timing checks while fewer than 3
\* of its origin's recorded timestamps are newer than 5 minutes before the
\* evaluation time is not rate-blocked and is recorded, also when the origin
\* has been blocked before, however often.
C22_UnblockedByTime ==
  (PassedHoneypotAndTiming /\ InWindow(last.before, last.ip, last.at) < 3)
  => /\ "rate_limit_exceeded" \notin SignalNames(last.result)
     /\ ~last.result.isSpam
     /\ last.ip \in DOMAIN submissionCache
     /\ submissionCache[last.ip] = KeptBefore \o <<last.at>>

\* An origin that filled its window and was blocked calls again when its
\* three timestamps have left the window: it passes, and its list starts
\* again with this call alone.
C22_Witness ==
  /\ PassedHoneypotAndTiming
  /\ last.wasBlocked
  /\ Len(last.before[last.ip]) = 3
  /\ InWindow(last.before, last.ip, last.at) = 0
  /\ ~last.result.isSpam
  /\ submissionCache[last.ip] = <<last.at>>

\* ------------------------------------------ claims about the step order
StepOrder == <<"lookup", "evaluate", "insert_submission", "insert_signals", "dispatch">>
Position(step) == CHOOSE i \in DOMAIN StepOrder : StepOrder[i] = step

\* C23: the steps a call has attempted are, in this order and each at most
\* once, form lookup, spam evaluation, submission insert, signal insert and
\* dispatch; signal insert and dispatch are attempted only when the
\* submission insert has resolved without error and the id is known; every
\* spam_signals row, email_logs row and notification task refers to an
\* existing submissions row.
C23_StepsInOrder ==
  /\ \A s \in Calls :
       LET tr == handler[s].trace
       IN /\ Range(tr) \subseteq Range(StepOrder)
          /\ \A i, j \in DOMAIN tr : i < j => Position(tr[i]) < Position(tr[j])
          /\ tr # <<>> => tr[1] = "lookup"
          /\ "insert_submission" \in Range(tr) => "evaluate" \in Range(tr)
          /\ ("insert_signals" \in Range(tr) \/ "dispatch" \in Range(tr))
             => /\ "insert_submission" \in Range(tr)
                /\ ~Faulted(s, "insert_submission")
                /\ Persisted(s)
                /\ handler[s].submissionId \in DOMAIN submissions
  /\ \A i \in DOMAIN spam_signals :
       spam_signals[i].submission_id \in DOMAIN submissions
  /\ \A i \in DOMAIN email_logs :
       email_logs[i].submission_id \in DOMAIN submissions
  /\ \A i \in DOMAIN mail : mail[i].submission_id \in DOMAIN submissions

\* A legitimate submission with three URLs to a form with a notification
\* address: all five steps, one signal row and one email_logs row for row 1.
C23_Witness ==
  \E s \in Calls :
    /\ handler[s].trace = StepOrder
    /\ handler[s].submissionId = 1
    /\ Len(SignalRowsFor(1)) = 1
    /\ Len(LogRowsFor(1)) = 1

\* ------------------------------- claims about the history and the tables
\* The calls of origin ip evaluated at clock reading t whose submissions
\* insert has not failed.
NotFailedAt(ip, t) ==
  {s \in Calls : /\ Evaluated(s)
                 /\ handler[s].ip = ip
                 /\ handler[s].evalAt = t
                 /\ ~Faulted(s, "insert_submission")}

\* C24: every timestamp in an origin's list is the evaluation time of a call
\* of that origin whose submissions insert succeeded or is still pending; a
\* call whose insert has failed has no timestamp in the list.
C24_HistoryReflectsPersisted ==
  \A ip \in DOMAIN submissionCache :
    \A i \in DOMAIN submissionCache[ip] :
      LET t == submissionCache[ip][i]
      IN Occurrences(submissionCache[ip], t) <= Cardinality(NotFailedAt(ip, t))

\* A call answered before the evaluation: 400, 404 or the OPTIONS preflight.
TurnedAway(s) ==
  /\ handler[s].pc = "done"
  /\ \/ handler[s].response.status \in {400, 404}
     \/ handler[s].req.method = "OPTIONS"

\* C28: a call answered 400 or 404 and an OPTIONS preflight have not run the
\* evaluation, and every timestamp in submissionCache is the evaluation time
\* of a call of that origin that was not turned away: such calls leave the
\* cache as it was.
C28_RejectedLeavesCache ==
  /\ \A s \in Calls : TurnedAway(s) => ~Evaluated(s) /\ handler[s].evalAt = 0
  /\ \A ip \in DOMAIN submissionCache :
       \A i \in DOMAIN submissionCache[ip] :
         Occurrences(submissionCache[ip], submissionCache[ip][i])
           <= Cardinality({s \in Calls : /\ Evaluated(s)
                                         /\ ~TurnedAway(s)
                                         /\ handler[s].ip = ip
                                         /\ handler[s].evalAt = submissionCache[ip][i]})
  /\ (\A s \in Calls : handler[s].pc = "idle" \/ TurnedAway(s))
     => submissionCache = <<>>

\* A patient user's submission to an active form whose forms query came back
\* with an error: 404, and the cache is still empty.
C28_Witness ==
  \E s \in Calls :
    /\ TurnedAway(s)
    /\ handler[s].formId = "F1"
    /\ ControlKeys \subseteq DOMAIN handler[s].req.body
    /\ <<"lookup", "error">> \in handler[s].faults
    /\ handler[s].response = NotFound
    /\ submissionCache = <<>>

\* ------------------------------------------------ claims about rateLimit
\* The entry rateLimit held for the caller when it was called, if it was
\* still inside its window.
InsideWindow ==
  /\ limited.ip \in DOMAIN limited.before
  /\ limited.at <= limited.before[limited.ip].resetTime

\* C25: a call of rateLimit(ip) made when the middleware holds no entry for
\* the ip, or after the entry's resetTime, is allowed and leaves the entry at
\* count 1 with a window of 15 minutes from the call; a call made up to
\* resetTime counts one more in the same window, is allowed while it is one
\* of the window's first 100 and otherwise gets a 429 result whose
\* retryAfter is the non-negative number of seconds, rounded up, to
\* resetTime.
C25_HundredPerWindow ==
  limited.called =>
    LET ip == limited.ip
        entry == rateLimits[ip]
    IN /\ ip \in DOMAIN rateLimits
       /\ \A k \in DOMAIN limited.before \ {ip} :
             k \in DOMAIN rateLimits /\ rateLimits[k] = limited.before[k]
       /\ IF InsideWindow
          THEN LET was == limited.before[ip]
               IN /\ entry = [count |-> was.count + 1, resetTime |-> was.resetTime]
                  /\ was.count < 100 => limited.result = Allowed
                  /\ was.count >= 100 =>
                       /\ limited.result.status = 429
                       /\ limited.result.retryAfter >= 0
                       /\ (limited.result.retryAfter - 1) * 1000 < was.resetTime - limited.at
                       /\ was.resetTime - limited.at <= limited.result.retryAfter * 1000
          ELSE /\ limited.result = Allowed
               /\ entry = [count |-> 1, resetTime |-> limited.at + 15 * 60 * 1000]

\* The 101st call of a window, made at the very millisecond of resetTime, has
\* been turned away.
C25_Witness ==
  /\ limited.called
  /\ InsideWindow
  /\ limited.before[limited.ip].count = 100
  /\ limited.at = limited.before[limited.ip].resetTime
  /\ limited.result.status = 429
  /\ limited.result.retryAfter = 0

\* ------------------------------------------- claims about the embed script
\* C27: a submission the embed script sent 2 seconds or more after the form
\* was put before the user does not get the too_fast signal.
C27_FillTimeIsMeasured ==
  (page.pc = "arrived" /\ page.sentAt - page.loadedAt >= 2000)
    => "too_fast" \notin SignalNames(page.result)
====
